---- MODULE Spec2Model ----
(***************************************************************************)
(* CHIRPS batch conversion pipeline (MPCP-lassa-sentinel).                 *)
(*                                                                         *)
(* The module models                                                       *)
(*   - the Worker Runner  (processing.py: process_batch_with_progress,     *)
(*     update_progress_file, upload_blob_to_azure, cleanup_local_files),   *)
(*   - its two entry points (extraction_and_processing_chirps.py __main__  *)
(*     and batch_task_runner.py main),                                     *)
(*   - the Progress Aggregator's poll (progress_monitor.py),               *)
(*   - the Chunker (create_chunks).                                        *)
(*                                                                         *)
(* Blob and file names that the code builds and compares as strings are    *)
(* sequences of one-character strings, so that prefix and suffix tests are *)
(* computed, not assumed.                                                  *)
(***************************************************************************)
EXTENDS Integers, Sequences, FiniteSets, TLC

\* ------------------------------------------------------------------ bounds
\* longest work-item list handed to a driver
MaxLen == 21
\* items per run whose processing or upload is made to fail
MaxFaults == 1
\* executions of the same task (1 = normal, 2 = one re-execution)
MaxRuns == 2
\* longest work-item list for which a re-execution is explored
MaxRerunLen == 3
\* longest list given to create_chunks in the Chunker specification
MaxItems == 4
\* largest |chunk_size| given to create_chunks in the Chunker specification
MaxChunkSize == 3
\* distinct item values in the Chunker specification
MaxVal == 2
\* keys per container and distinct contents in the upload specification
MaxKeys == 2
MaxContents == 2
\* year sub-listings of the catalog, and tokens of a URL after the scheme
MaxYears == 2
MaxUrlLen == 4
\* progress blobs in batch-logs in the Aggregator specification, the largest
\* completed count of a record, and how far record ages lie around the limit
MaxBlobs == 2
MaxCompleted == 1
MaxAgeSlack == 1
\* years in the catalog listing of the Dispatcher specification, and how many
\* links beyond a multiple of the chunk size a year's listing may hold
MaxListedYears == 2
MaxExtraUrls == 1
\* the concurrent runners' partition: items, chunk size, and the number of
\* pieces of text after the year segment of a url
MaxConcItems == 2
MaxConcChunk == 1
MaxTailLen == 2
\* (cog, raw) pairs in the direct calls of cleanup_local_files
MaxCleanPairs == 2
\* the largest max_retries passed to the retry wrapper, and the number of
\* steps per second in which the jitter of uniform(1, 3) is drawn
MaxRetries == 3
MaxJitterSteps == 3
\* items found by the catalog search, and the largest batch_size
MaxIngestItems == 5
MaxBatchSize == 3
\* distinct operation ids given to the operations monitor, how many of the
\* operations are still running when it starts, and the largest
\* timeout_seconds in sleeps of 30 s
MaxOps == 6
MaxRunning == 2
MaxTimeoutRounds == 3

\* ------------------------------------------------------- program constants
\* processed_count % 10 == 0
CheckpointEvery == 10
\* create_chunks(work_items, chunk_size = 550)
ChunkSize == 550
\* decompress_convert_to_cog_with_retry(..., max_retries = 3)
max_retries == 3
\* def process_batch_with_progress(work_items_chunk, task_id): 2 parameters
RunnerParams == 2
\* process_batch_with_progress(work_items): 1 argument
BatchCallArgs == 1
\* data_urls.append({"year": str(i + 1981), ...})
FirstYear == 1981
\* time_since_update > timedelta(minutes=30)
StaleAfter == 30
\* estimated_total = len(progress_data) * 550
EstimatedPerTask == 550
\* an iso_timestamp text that datetime.fromisoformat rejects
BadStamp == -1
\* task_id = f"task{i:03d}"
IdWidth == 3
\* wait_time = uniform(1, 3) * (2 ** attempt)
JitterLow == 1
JitterHigh == 3
BackoffBase == 2
\* if response.status_code in [200, 202]
AcceptedCodes == {200, 202}
\* the status codes of the answers to a post of an item collection
StatusCodes == AcceptedCodes \cup {400, 500}
\* for op_id in remaining[:5]
PollsPerRound == 5
\* time.sleep(30)
PollInterval == 30
\* if status in ["Succeeded", "Completed"] / elif status in ["Failed", "Canceled"]
SucceededNames == {"Succeeded", "Completed"}
FailedNames == {"Failed", "Canceled"}

\* ------------------------------------------------------------------ names
Digit(d) ==
    CASE d = 0 -> "0" [] d = 1 -> "1" [] d = 2 -> "2" [] d = 3 -> "3"
      [] d = 4 -> "4" [] d = 5 -> "5" [] d = 6 -> "6" [] d = 7 -> "7"
      [] d = 8 -> "8" [] OTHER -> "9"

RECURSIVE IntToStr(_)
\* str(n) / f"{n}" for a natural number
IntToStr(n) ==
    IF n < 10 THEN <<Digit(n)>> ELSE IntToStr(n \div 10) \o <<Digit(n % 10)>>

\* name_starts_with = "task_"
TaskPrefix == <<"t", "a", "s", "k", "_">>
\* ".json"
JsonSuffix == <<".", "j", "s", "o", "n">>

StartsWith(s, p) == Len(s) >= Len(p) /\ SubSeq(s, 1, Len(p)) = p
EndsWith(s, p) == Len(s) >= Len(p) /\ SubSeq(s, Len(s) - Len(p) + 1, Len(s)) = p

\* file_name = f"{task_id}.json"
ProgressKey(tid) == tid \o JsonSuffix

\* ---------------------------------------------------------------- chunker
Min(a, b) == IF a < b THEN a ELSE b

RECURSIVE PyRange(_, _, _)
\* range(start, stop, step) for step # 0
PyRange(start, stop, step) ==
    IF (step > 0 /\ start >= stop) \/ (step < 0 /\ start <= stop)
    THEN <<>>
    ELSE <<start>> \o PyRange(start + step, stop, step)

\* work_items[a:b] for 0 <= a <= b
PySlice(s, a, b) == SubSeq(s, a + 1, Min(b, Len(s)))

\* create_chunks with an off-by-one slice end, work_items[i:i+chunk_size-1]
create_chunks_short(work_items, chunk_size) ==
    IF chunk_size = 0
    THEN [raised |-> TRUE, chunks |-> <<>>]
    ELSE LET starts == PyRange(0, Len(work_items), chunk_size)
         IN  [raised |-> FALSE,
              chunks |-> [j \in 1..Len(starts) |->
                           PySlice(work_items, starts[j], starts[j] + chunk_size - 1)]]

\* create_chunks with the range running one start too far,
\* range(0, len(work_items) + 1, chunk_size)
create_chunks_extra(work_items, chunk_size) ==
    IF chunk_size = 0
    THEN [raised |-> TRUE, chunks |-> <<>>]
    ELSE LET starts == PyRange(0, Len(work_items) + 1, chunk_size)
         IN  [raised |-> FALSE,
              chunks |-> [j \in 1..Len(starts) |->
                           PySlice(work_items, starts[j], starts[j] + chunk_size)]]

\* create_chunks: range(0, len, chunk_size) raises ValueError for step 0
create_chunks(work_items, chunk_size) ==
    IF chunk_size = 0
    THEN [raised |-> TRUE, chunks |-> <<>>]
    ELSE LET starts == PyRange(0, Len(work_items), chunk_size)
         IN  [raised |-> FALSE,
              chunks |-> [j \in 1..Len(starts) |->
                           PySlice(work_items, starts[j], starts[j] + chunk_size)]]

RECURSIVE Concat(_)
Concat(ss) == IF ss = <<>> THEN <<>> ELSE Head(ss) \o Concat(Tail(ss))


\* ---------------------------------------------------------- durable store
\* A container is a function from blob names to contents.
\* blob_client.upload_blob(data) is called without overwrite=True, so the
\* service refuses a name that already holds a blob (ResourceExistsError);
\* open(file_path) raises FileNotFoundError when the local file is missing.

upload_blob_to_azure(container, name, content, hasFile, fault) ==
    IF ~hasFile THEN [ok |-> FALSE, err |-> "FileNotFoundError", store |-> container]
    ELSE IF fault THEN [ok |-> FALSE, err |-> "TransportError", store |-> container]
    ELSE IF name \in DOMAIN container
    THEN [ok |-> FALSE, err |-> "ResourceExistsError", store |-> container]
    ELSE [ok |-> TRUE, err |-> "none",
          store |-> [k \in DOMAIN container \cup {name} |->
                        IF k = name THEN content ELSE container[k]]]

\* ------------------------------------------------------------ local files
CogFile(item) == <<"cog", item>>
RawFile(item) == <<"raw", item>>
\* blob names f"{year}/{cog_file_name}" and f"{year}/{raw_file_name}"
CogBlob(item) == <<"processed-cogs", item>>
RawBlob(item) == <<"raw-data", item>>

\* cleanup_local_files emptying the whole scratch directory instead
cleanup_everything(file_paths, files) == {}

RECURSIVE cleanup_local_files(_, _)
\* cleanup_local_files(list of (cog, raw)): os.remove in list order; the
\* first FileNotFoundError leaves the loop (the try encloses the for)
cleanup_local_files(file_paths, files) ==
    IF file_paths = <<>> THEN files
    ELSE LET cog == Head(file_paths)[1]
             raw == Head(file_paths)[2]
         IN  IF cog \notin files THEN files
             ELSE IF raw \notin files THEN files \ {cog}
             ELSE cleanup_local_files(Tail(file_paths), files \ {cog, raw})

\* the branch type(file_paths) == str: os.remove(file_paths); the handler of
\* FileNotFoundError prints i and j, which only the for loop of the other
\* branch binds, so it raises UnboundLocalError
cleanup_local_path(path, files) ==
    IF path \in files
    THEN [raised |-> FALSE, err |-> "none", files |-> files \ {path}]
    ELSE [raised |-> TRUE, err |-> "UnboundLocalError", files |-> files]

\* --------------------------------------------------------- item processor
\* What happens to an item (the environment's choice, kept for the item):
\*   ok        download, decompression and clip succeed
\*   download  unzip_file raises (non-200 status or bad gzip): no file written
\*   clip      clip_to_cog swallows its exception: raw written, no COG written
\*   cogup     the COG upload fails in transport
\*   rawup     the raw upload fails in transport
Fates == {"ok", "download", "clip", "cogup", "rawup"}

\* unzip_file: requests.get raises when the source is unreachable
\* ("download"); with a status other than 200 ("status") decompressed_file is
\* never bound and the return raises UnboundLocalError; gzip.decompress
\* raises on a payload that is not gzip ("gzip")
unzip_file(f) ==
    CASE f = "download" -> [raised |-> TRUE, err |-> "ConnectionError"]
      [] f = "status"   -> [raised |-> TRUE, err |-> "UnboundLocalError"]
      [] f = "gzip"     -> [raised |-> TRUE, err |-> "BadGzipFile"]
      [] OTHER          -> [raised |-> FALSE, err |-> "none"]

\* decompress_convert_to_cog opening the raw file before the download
decompress_raw_file_first(item, f, files) ==
    IF unzip_file(f).raised THEN [raised |-> TRUE, files |-> files \cup {RawFile(item)}]
    ELSE IF f = "clip" THEN [raised |-> FALSE, files |-> files \cup {RawFile(item)}]
    ELSE [raised |-> FALSE, files |-> files \cup {RawFile(item), CogFile(item)}]

\* decompress_convert_to_cog: the local files after the call, and whether it
\* raised; the raw file is written after unzip_file returned
decompress_convert_to_cog(item, f, files) ==
    IF unzip_file(f).raised THEN [raised |-> TRUE, files |-> files]
    ELSE IF f = "clip" THEN [raised |-> FALSE, files |-> files \cup {RawFile(item)}]
    ELSE [raised |-> FALSE, files |-> files \cup {RawFile(item), CogFile(item)}]

\* the try block of process_batch_with_progress for one item
HandleItem(item, f, files, blobs, content) ==
    LET p == decompress_convert_to_cog(item, f, files)
    IN  IF p.raised
        THEN [ok |-> FALSE, err |-> "DownloadError", files |-> p.files, blobs |-> blobs]
        ELSE LET u1 == upload_blob_to_azure(blobs, CogBlob(item), content,
                                            CogFile(item) \in p.files, f = "cogup")
             IN  IF ~u1.ok
                 THEN [ok |-> FALSE, err |-> u1.err, files |-> p.files, blobs |-> blobs]
                 ELSE LET u2 == upload_blob_to_azure(u1.store, RawBlob(item), content,
                                                     RawFile(item) \in p.files, f = "rawup")
                      IN  [ok |-> u2.ok, err |-> u2.err, files |-> p.files,
                           blobs |-> u2.store]

\* ----------------------------------------------------------- file naming
\* A URL is a sequence of tokens: the text "<y>/" of a year is <<"dir", y>>,
\* the text ".gz" is <<"gz", 0>>, any other piece of text is <<"txt", n>>.
Years == FirstYear..(FirstYear + MaxYears - 1)
YearDir(y) == <<"dir", y>>
Gz == <<"gz", 0>>
Txt == <<"txt", 0>>
UrlTokens == {YearDir(y) : y \in Years} \cup {Gz, Txt}

RECURSIVE PySplit(_, _)
\* str.split(sep): the pieces between the occurrences of sep
PySplit(s, sep) ==
    IF \A j \in 1..Len(s) : s[j] # sep THEN <<s>>
    ELSE LET j == CHOOSE h \in 1..Len(s) :
                     s[h] = sep /\ \A g \in 1..(h - 1) : s[g] # sep
         IN  <<SubSeq(s, 1, j - 1)>> \o PySplit(SubSeq(s, j + 1, Len(s)), sep)

RECURSIVE PyRemoveAll(_, _)
\* str.replace(old, ""): every occurrence of old is removed
PyRemoveAll(s, old) ==
    IF s = <<>> THEN <<>>
    ELSE IF Head(s) = old THEN PyRemoveAll(Tail(s), old)
    ELSE <<Head(s)>> \o PyRemoveAll(Tail(s), old)

\* raw_file_name = url.split(year_dir)[1].replace(".gz", ""); the index 1
\* raises IndexError when the URL does not contain year_dir
raw_file_name(url, year) ==
    LET parts == PySplit(url, YearDir(year))
    IN  IF Len(parts) < 2 THEN [raised |-> TRUE, name |-> <<>>]
        ELSE [raised |-> FALSE, name |-> PyRemoveAll(parts[2], Gz)]

\* decompress_convert_to_cog on a work item {url, year}: the name is derived
\* first, then the download, the raw file write and the clip follow
ProcessWorkItem(url, year, f, files) ==
    LET n == raw_file_name(url, year)
    IN  IF n.raised
        THEN [raised |-> TRUE, err |-> "IndexError", downloaded |-> FALSE,
              name |-> <<>>, files |-> files]
        ELSE LET p == decompress_convert_to_cog(n.name, f, files)
             IN  [raised |-> p.raised,
                  err |-> IF p.raised THEN "DownloadError" ELSE "none",
                  downloaded |-> TRUE, name |-> n.name, files |-> p.files]

\* --------------------------------------------------------------- aggregator
\* the characters of blob names, in code-point order
Alphabet == <<".", "0", "1", "2", "3", "4", "5", "6", "7", "8", "9", "_",
              "a", "b", "c", "d", "e", "f", "g", "h", "i", "j", "k", "l", "m",
              "n", "o", "p", "q", "r", "s", "t", "u", "v", "w", "x", "y", "z">>
Rank(c) == CHOOSE r \in 1..Len(Alphabet) : Alphabet[r] = c

RECURSIVE LexLess(_, _)
\* the order in which list_blobs returns names
LexLess(a, b) ==
    IF b = <<>> THEN FALSE
    ELSE IF a = <<>> THEN TRUE
    ELSE IF Head(a) = Head(b) THEN LexLess(Tail(a), Tail(b))
    ELSE Rank(Head(a)) < Rank(Head(b))

RECURSIVE SortedNames(_)
SortedNames(names) ==
    IF names = {} THEN <<>>
    ELSE LET first == CHOOSE a \in names : \A b \in names \ {a} : LexLess(a, b)
         IN  <<first>> \o SortedNames(names \ {first})

\* the content of a blob that json.loads rejects
NotJson == [garbage |-> TRUE]

RECURSIVE ReadBlobs(_, _)
\* the for loop of get_all_progress_files: the try encloses the loop, so the
\* first blob json.loads rejects ends the loop and what was read is returned
ReadBlobs(blob_list, logs) ==
    IF blob_list = <<>> THEN <<>>
    ELSE IF logs[Head(blob_list)] = NotJson THEN <<>>
    ELSE <<logs[Head(blob_list)]>> \o ReadBlobs(Tail(blob_list), logs)

\* ProgressMonitor.get_all_progress_files:
\* list_blobs(name_starts_with = "task_"), then blob.name.endswith('.json')
get_all_progress_files(logs) ==
    LET listed    == {k \in DOMAIN logs : StartsWith(k, TaskPrefix)}
        blob_list == SortedNames({k \in listed : EndsWith(k, JsonSuffix)})
    IN  ReadBlobs(blob_list, logs)

\* task.get(field, default)
Get(task, field, default) == IF field \in DOMAIN task THEN task[field] ELSE default

NoTotals == [raised |-> FALSE, total_completed |-> 0, total_failed |-> 0,
             active_tasks |-> 0, stuck_tasks |-> <<>>]

RECURSIVE SumTasksGe(_, _, _)
\* the loop of calculate_overall_progress with >= in the staleness test
SumTasksGe(progress_data, now, acc) ==
    IF progress_data = <<>> THEN acc
    ELSE LET task  == Head(progress_data)
             stamp == Get(task, "iso_timestamp", now)
         IN  IF stamp = BadStamp THEN [acc EXCEPT !.raised = TRUE]
             ELSE LET counted ==
                        [acc EXCEPT
                           !.total_completed = @ + Get(task, "completed", 0),
                           !.total_failed = @ + Len(Get(task, "failed_files", <<>>))]
                  IN  SumTasksGe(Tail(progress_data), now,
                        IF now - stamp >= StaleAfter
                        THEN [counted EXCEPT !.stuck_tasks =
                                Append(@, Get(task, "batch_number", <<"unknown">>))]
                        ELSE [counted EXCEPT !.active_tasks = @ + 1])

RECURSIVE SumTasks(_, _, _)
\* the loop of calculate_overall_progress; datetime.fromisoformat raises
\* ValueError on a malformed iso_timestamp and nothing catches it
SumTasks(progress_data, now, acc) ==
    IF progress_data = <<>> THEN acc
    ELSE LET task  == Head(progress_data)
             stamp == Get(task, "iso_timestamp", now)
         IN  IF stamp = BadStamp THEN [acc EXCEPT !.raised = TRUE]
             ELSE LET counted ==
                        [acc EXCEPT
                           !.total_completed = @ + Get(task, "completed", 0),
                           !.total_failed = @ + Len(Get(task, "failed_files", <<>>))]
                  IN  SumTasks(Tail(progress_data), now,
                        IF now - stamp > StaleAfter
                        THEN [counted EXCEPT !.stuck_tasks =
                                Append(@, Get(task, "batch_number", <<"unknown">>))]
                        ELSE [counted EXCEPT !.active_tasks = @ + 1])

\* calculate_overall_progress estimating one task's worth for any fleet
calculate_overall_progress_flat(progress_data, now) ==
    LET t == SumTasks(progress_data, now, NoTotals)
        estimated_total == EstimatedPerTask
    IN  [raised |-> t.raised,
         total_completed |-> t.total_completed,
         total_failed |-> t.total_failed,
         estimated_total |-> estimated_total,
         completion_percentage |->
             IF estimated_total > 0 THEN <<t.total_completed * 100, estimated_total>>
             ELSE <<0, 1>>,
         active_tasks |-> t.active_tasks,
         completed_tasks |-> 0,
         failed_tasks |-> 0,
         stuck_tasks |-> t.stuck_tasks,
         total_tasks |-> Len(progress_data)]

\* ProgressMonitor.calculate_overall_progress; completion_percentage is the
\* fraction <<numerator, denominator>>
calculate_overall_progress(progress_data, now) ==
    LET t == SumTasks(progress_data, now, NoTotals)
        estimated_total == Len(progress_data) * EstimatedPerTask
    IN  [raised |-> t.raised,
         total_completed |-> t.total_completed,
         total_failed |-> t.total_failed,
         estimated_total |-> estimated_total,
         completion_percentage |->
             IF estimated_total > 0 THEN <<t.total_completed * 100, estimated_total>>
             ELSE <<0, 1>>,
         active_tasks |-> t.active_tasks,
         completed_tasks |-> 0,
         failed_tasks |-> 0,
         stuck_tasks |-> t.stuck_tasks,
         total_tasks |-> Len(progress_data)]

\* ------------------------------------------------------------------ state
VARIABLES
    entry,            \* which program runs: "local" driver, "batch" task runner
    payload,          \* work_items.json on the node: "ok", "missing", "malformed"
    work_items,       \* the items the driver holds (items are numbered 1..n)
    pc,               \* "start", "loop", "ckpt", "done", "crashed", "exited"
    exitCode,         \* process exit status, -1 while running
    run,              \* execution number of the task
    task_id,          \* str(task_id) of the running execution
    chunk,            \* work_items_chunk
    idx,              \* 1 + the loop variable i of process_batch_with_progress
    completed,        \* list of (cog path, raw path) of this execution
    failed_files,     \* list of [item, Error] of this execution
    processed_count,
    files,            \* local scratch files
    artifacts,        \* containers processed-cogs and raw-data
    batch_logs,       \* container batch-logs
    clock,            \* datetime.now(), advanced by each progress write
    fate,             \* the fate of each item, "unknown" until it is handled
    faults,           \* items given a fate other than "ok"
    attempts,         \* Item Processor invocations per item in this execution
    produced,         \* local files the processor has written, ever
    deleted,          \* local artifact files this execution has removed
    prior,            \* blob names in artifacts when this execution started
    ckptCalls,        \* update_progress_file calls of this execution
    lastCkpt,         \* the record given to the latest update_progress_file call
    progress_data,    \* result of the Aggregator's latest poll
    pollFresh,        \* no progress record was written since that poll
    lastUpload,       \* upload specification: the latest direct upload call
    cl_items,         \* chunker specification: the list given to create_chunks
    cl_size,          \*                        the chunk_size given
    cl_result,        \*                        the result, once called
    nm_url,           \* naming specification: the work item's url
    nm_year,          \*                       the work item's year
    nm_fate,          \*                       what the download and clip will do
    nm_result,        \*                       the processor's outcome, once called
    mon_summary,      \* aggregator specification: the status check's outcome
    dp_pc,            \* dispatcher specification: main's position
    dp_listing,       \*   the catalog: the number of links under each year url
    dp_items,         \*   work_items
    dp_chunks,        \*   work_items_chunks
    dp_job_id,        \*   job_id, <<>> before create_batch_job returned
    dp_provider,      \*   the batch service: its jobs and the tasks it holds
    dp_task_data,     \*   the task-data container
    dp_tasks,         \*   tasks, the list create_and_submit_tasks builds
    dp_failures,      \*   e.failure_tasks of the CreateTasksErrorException
    dp_printed,       \*   what main's except handlers printed
    cc_chunks,        \* concurrent runners: the partition, one chunk per task
    cc_idx,           \*   per task, the position in its chunk
    cc_stage,         \*   per task: "run", "ckpt", "done" or "crashed"
    cc_done,          \*   per task, len(completed)
    cc_failed,        \*   per task, failed_files
    cc_artifacts,     \*   raw-data and processed-cogs: key -> the task that stored it
    cc_logs,          \*   batch-logs: name -> record
    cc_calls,         \*   the upload_blob calls on artifact keys, <<key, task>>
    cc_logcalls,      \*   the upload_blob calls on batch-logs names, <<name, task>>
    cu_arg,           \* cleanup calls: the argument, a path or a list of pairs
    cu_files,         \*   the files on the local disk
    cu_result,        \*   the call's outcome, once made
    rt_max,           \* retry wrapper: max_retries
    rt_attempt,       \*   attempt, the loop variable
    rt_calls,         \*   the processor's invocations, in order
    rt_sleeps,        \*   the time.sleep calls, in order, in 1/MaxJitterSteps s
    rt_state,         \*   "loop", "returned" or "raised"
    rt_value,         \*   the value returned
    rt_error,         \*   the exception that left the function
    ig_items,         \* catalog ingestion: len(items), the items are 1..len
    ig_batch_size,    \*   batch_size
    ig_item,          \*   the position of the for loop in items
    ig_batch,         \*   batch
    ig_posted,        \*   the item collections posted and answered, in order
    ig_total_ingested, \*  total_ingested
    ig_total_searched, \*  total_searched
    ig_batch_num,     \*   batch_num
    ig_operation_ids, \*   operation_ids
    ig_pc,            \*   "loop", "final", "done" or "raised"
    om_operation_ids, \* operations monitor: operation_ids
    om_timeout_seconds, \* timeout_seconds
    om_status,        \*   what a poll of each operation reports at present
    om_completed,     \*   completed
    om_failed,        \*   failed
    om_elapsed,       \*   time.time() - start_time
    om_stale,         \*   the polls made of ids already classified
    om_pc             \*   "loop", "done" or "timeout"

runnerVars == <<run, task_id, chunk, idx, completed, failed_files, processed_count,
                files, artifacts, clock, fate, faults, attempts, produced,
                deleted, prior, ckptCalls, lastCkpt>>
driverVars == <<entry, payload, work_items, pc, exitCode>>
pollVars   == <<progress_data, pollFresh>>
namingVars == <<nm_url, nm_year, nm_fate, nm_result>>
dispatchVars == <<dp_pc, dp_listing, dp_items, dp_chunks, dp_job_id, dp_provider,
                  dp_task_data, dp_tasks, dp_failures, dp_printed>>
concVars   == <<cc_chunks, cc_idx, cc_stage, cc_done, cc_failed, cc_artifacts,
                cc_logs, cc_calls, cc_logcalls>>
cleanVars  == <<cu_arg, cu_files, cu_result>>
retryVars  == <<rt_max, rt_attempt, rt_calls, rt_sleeps, rt_state, rt_value, rt_error>>
ingestVars == <<ig_items, ig_batch_size, ig_item, ig_batch, ig_posted,
                ig_total_ingested, ig_total_searched, ig_batch_num,
                ig_operation_ids, ig_pc>>
opsVars    == <<om_operation_ids, om_timeout_seconds, om_status, om_completed,
                om_failed, om_elapsed, om_stale, om_pc>>
catalogVars == <<ingestVars, opsVars>>
extVars    == <<namingVars, mon_summary, dispatchVars, concVars, cleanVars,
                retryVars, catalogVars>>
sideVars   == <<lastUpload, cl_items, cl_size, cl_result, extVars>>
vars == <<driverVars, runnerVars, batch_logs, pollVars, sideVars>>

NoRecord == [iso_timestamp |-> 0, batch_number |-> <<>>, completed |-> 0,
             failed_files |-> <<>>]
NoUpload == [container |-> "none", name |-> 0, content |-> 0, existed |-> FALSE,
             prev |-> 0, ok |-> FALSE]

\* the state every execution of a task starts from
RunnerStart ==
    /\ chunk = <<>> /\ idx = 1 /\ completed = <<>> /\ failed_files = <<>>
    /\ processed_count = 0 /\ attempts = [k \in 1..MaxLen |-> 0]
    /\ deleted = {} /\ ckptCalls = 0 /\ lastCkpt = NoRecord

StoreEmpty ==
    /\ files = {} /\ artifacts = <<>> /\ batch_logs = <<>> /\ clock = 1
    /\ fate = [k \in 1..MaxLen |-> "unknown"] /\ faults = 0
    /\ produced = {} /\ prior = {} /\ run = 1 /\ task_id = <<>>
    /\ progress_data = <<>> /\ pollFresh = FALSE

NoOutcome == [called |-> FALSE, raised |-> FALSE, err |-> "none",
              downloaded |-> FALSE, name |-> <<>>, files |-> {}]

NamingIdle ==
    /\ nm_url = <<>> /\ nm_year = FirstYear /\ nm_fate = "ok" /\ nm_result = NoOutcome

NoSummary == [state |-> "none", value |-> calculate_overall_progress(<<>>, 0)]

NoProvider == [jobs |-> {}, tasks |-> {}]

DispatchIdle ==
    /\ dp_pc = "idle" /\ dp_listing = <<>> /\ dp_items = <<>> /\ dp_chunks = <<>>
    /\ dp_job_id = <<>> /\ dp_provider = NoProvider /\ dp_task_data = <<>>
    /\ dp_tasks = <<>> /\ dp_failures = <<>> /\ dp_printed = <<>>

ConcIdle ==
    /\ cc_chunks = <<>> /\ cc_idx = <<>> /\ cc_stage = <<>> /\ cc_done = <<>>
    /\ cc_failed = <<>> /\ cc_artifacts = <<>> /\ cc_logs = <<>>
    /\ cc_calls = {} /\ cc_logcalls = {}

NoCleanup == [called |-> FALSE, raised |-> FALSE]

CleanIdle ==
    /\ cu_arg = [kind |-> "list", pairs |-> <<>>] /\ cu_files = {}
    /\ cu_result = NoCleanup

\* Python's None
None == <<>>

RetryIdle ==
    /\ rt_max = 0 /\ rt_attempt = 0 /\ rt_calls = <<>> /\ rt_sleeps = <<>>
    /\ rt_state = "idle" /\ rt_value = None /\ rt_error = None

IngestIdle ==
    /\ ig_items = 0 /\ ig_batch_size = 1 /\ ig_item = 1 /\ ig_batch = <<>>
    /\ ig_posted = <<>> /\ ig_total_ingested = 0 /\ ig_total_searched = 0
    /\ ig_batch_num = 0 /\ ig_operation_ids = <<>> /\ ig_pc = "idle"

OpsIdle ==
    /\ om_operation_ids = <<>> /\ om_timeout_seconds = 0 /\ om_status = <<>>
    /\ om_completed = <<>> /\ om_failed = <<>> /\ om_elapsed = 0
    /\ om_stale = {} /\ om_pc = "idle"

CatalogIdle == IngestIdle /\ OpsIdle

ExtIdle == NamingIdle /\ mon_summary = NoSummary /\ DispatchIdle /\ ConcIdle
           /\ CleanIdle /\ RetryIdle /\ CatalogIdle

SideIdle ==
    /\ lastUpload = NoUpload /\ cl_items = <<>> /\ cl_size = 1
    /\ cl_result = [called |-> FALSE, raised |-> FALSE, chunks |-> <<>>]
    /\ ExtIdle

Init ==
    /\ entry \in {"local", "batch"}
    /\ payload \in {"ok", "missing", "malformed"}
    /\ entry = "local" => payload = "ok"
    /\ \E n \in 0..MaxLen : work_items = [k \in 1..n |-> k]
    /\ pc = "start" /\ exitCode = -1
    /\ RunnerStart /\ StoreEmpty /\ SideIdle


\* ---------------------------------------------------------------- drivers
LogFile == <<"log", 0>>

\* extraction_and_processing_chirps.py __main__:
\*   for task_id, chunk in enumerate(create_chunks(work_items)[0:1]): process...
LocalMain ==
    /\ entry = "local" /\ pc = "start"
    /\ LET first == PySlice(create_chunks(work_items, ChunkSize).chunks, 0, 1)
       IN  IF first = <<>>
           THEN /\ pc' = "done" /\ exitCode' = 0
                /\ UNCHANGED <<chunk, task_id>>
           ELSE /\ pc' = "loop"
                /\ chunk' = first[1]
                /\ task_id' = IntToStr(0)
                /\ UNCHANGED exitCode
    /\ UNCHANGED <<entry, payload, work_items, run, idx, completed, failed_files,
                   processed_count, files, artifacts, clock, fate, faults,
                   attempts, produced, deleted, prior, ckptCalls, lastCkpt,
                   batch_logs, pollVars, sideVars>>

\* batch_task_runner.py get_work_items_from_file
get_work_items_from_file(p, items) ==
    IF p = "missing" THEN [raised |-> TRUE, err |-> "FileNotFoundError", items |-> <<>>]
    ELSE IF p = "malformed" THEN [raised |-> TRUE, err |-> "ValueError", items |-> <<>>]
    ELSE [raised |-> FALSE, err |-> "none", items |-> items]

\* batch_task_runner.py main: the call process_batch_with_progress(work_items)
\* passes BatchCallArgs arguments to a function of RunnerParams parameters,
\* which raises TypeError before the function body runs; main's
\* except Exception turns every exception into sys.exit(1)
BatchMain ==
    /\ entry = "batch" /\ pc = "start"
    /\ LET r == get_work_items_from_file(payload, work_items)
       IN  IF r.raised \/ BatchCallArgs # RunnerParams
           THEN /\ pc' = "exited" /\ exitCode' = 1
                /\ UNCHANGED <<chunk, task_id>>
           ELSE /\ pc' = "loop"
                /\ chunk' = r.items
                /\ task_id' = <<>>
                /\ UNCHANGED exitCode
    /\ UNCHANGED <<entry, payload, work_items, run, idx, completed, failed_files,
                   processed_count, files, artifacts, clock, fate, faults,
                   attempts, produced, deleted, prior, ckptCalls, lastCkpt,
                   batch_logs, pollVars, sideVars>>

\* ---------------------------------------------------------- worker runner
\* process_batch_with_progress, one pass of the for loop up to the checkpoint
TryItem ==
    /\ pc = "loop" /\ idx <= Len(chunk)
    /\ LET item == chunk[idx] IN
       \E f \in Fates :
         /\ fate[item] # "unknown" => f = fate[item]
         /\ (fate[item] = "unknown" /\ f # "ok") => faults < MaxFaults
         /\ LET r == HandleItem(item, f, files, artifacts, run)
                n == attempts[item] + 1
            IN  /\ fate' = [fate EXCEPT ![item] = f]
                /\ faults' = IF fate[item] = "unknown" /\ f # "ok"
                             THEN faults + 1 ELSE faults
                /\ attempts' = [attempts EXCEPT ![item] = n]
                /\ files' = r.files
                /\ produced' = produced \cup (r.files \ files)
                /\ artifacts' = r.blobs
                /\ IF r.ok
                   THEN /\ completed' = Append(completed, <<CogFile(item), RawFile(item)>>)
                        /\ processed_count' = processed_count + 1
                        /\ failed_files' = failed_files
                        /\ IF (processed_count + 1) % CheckpointEvery = 0
                              \/ idx - 1 = Len(chunk) - 1
                           THEN pc' = "ckpt" /\ idx' = idx
                           ELSE pc' = "loop" /\ idx' = idx + 1
                   ELSE /\ failed_files' = Append(failed_files,
                               [item |-> item, Error |-> [kind |-> r.err, attempt |-> n]])
                        /\ UNCHANGED <<completed, processed_count>>
                        /\ pc' = "loop" /\ idx' = idx + 1
    /\ UNCHANGED <<entry, payload, work_items, exitCode, run, task_id, chunk, clock,
                   deleted, prior, ckptCalls, lastCkpt, batch_logs, pollVars,
                   sideVars>>

\* a record that leaves the failed files out
progress_record_without_failures(tid, count, failed, now) ==
    [iso_timestamp |-> now, batch_number |-> tid, completed |-> count,
     failed_files |-> <<>>]

\* update_progress_file(task_id, len(completed), failed_files): the record
ProgressRecord(tid, count, failed, now) ==
    [iso_timestamp |-> now, batch_number |-> tid, completed |-> count,
     failed_files |-> failed]

\* update_progress_file(...) followed by cleanup_local_files(completed); an
\* exception of the upload is outside the loop's try and ends the execution
Checkpoint ==
    /\ pc = "ckpt"
    /\ LET rec == ProgressRecord(task_id, Len(completed), failed_files, clock)
           u   == upload_blob_to_azure(batch_logs, ProgressKey(task_id), rec, TRUE, FALSE)
       IN  /\ ckptCalls' = ckptCalls + 1
           /\ lastCkpt' = rec
           /\ clock' = clock + 1
           /\ IF u.ok
              THEN LET kept == cleanup_local_files(completed, files) IN
                   /\ batch_logs' = u.store
                   /\ pollFresh' = FALSE
                   /\ files' = kept
                   /\ deleted' = deleted \cup (files \ kept)
                   /\ idx' = idx + 1
                   /\ pc' = "loop"
                   /\ UNCHANGED exitCode
              ELSE /\ files' = files \cup {LogFile}
                   /\ pc' = "crashed"
                   /\ exitCode' = 1
                   /\ UNCHANGED <<batch_logs, pollFresh, deleted, idx>>
    /\ UNCHANGED <<entry, payload, work_items, run, task_id, chunk, completed,
                   failed_files, processed_count, artifacts, fate, faults, attempts,
                   produced, prior, progress_data, sideVars>>

\* the for loop is exhausted: the function returns and the process ends
Finish ==
    /\ pc = "loop" /\ idx > Len(chunk)
    /\ pc' = "done" /\ exitCode' = 0
    /\ UNCHANGED <<entry, payload, work_items, runnerVars, batch_logs, pollVars,
                   sideVars>>

\* the same task is executed again (orchestration retry, or the driver is
\* started again): memory is fresh, the store and the scratch disk are kept
Rerun ==
    /\ pc \in {"done", "crashed", "exited"} /\ run < MaxRuns
    /\ Len(work_items) <= MaxRerunLen
    /\ pc' = "start" /\ exitCode' = -1
    /\ run' = run + 1
    /\ prior' = DOMAIN artifacts
    /\ chunk' = <<>> /\ idx' = 1 /\ completed' = <<>> /\ failed_files' = <<>>
    /\ processed_count' = 0 /\ attempts' = [k \in 1..MaxLen |-> 0]
    /\ deleted' = {} /\ ckptCalls' = 0 /\ lastCkpt' = NoRecord
    /\ UNCHANGED <<entry, payload, work_items, task_id, files, artifacts, clock, fate,
                   faults, produced, batch_logs, pollVars, sideVars>>

\* ProgressMonitor: one poll of the batch-logs container
Poll ==
    /\ ~pollFresh
    /\ pc # "idle"
    /\ progress_data' = get_all_progress_files(batch_logs)
    /\ pollFresh' = TRUE
    /\ UNCHANGED <<driverVars, runnerVars, batch_logs, sideVars>>

Next == LocalMain \/ BatchMain \/ TryItem \/ Checkpoint \/ Finish \/ Rerun \/ Poll

Spec == Init /\ [][Next]_vars

\* ------------------------------------------------- upload specification
\* upload_blob_to_azure called directly, on the artifact containers
Idle ==
    /\ entry = "local" /\ payload = "ok" /\ work_items = <<>>
    /\ pc = "idle" /\ exitCode = -1
    /\ RunnerStart /\ StoreEmpty

InitUpload == Idle /\ SideIdle

UploadCall(c, k, v) ==
    /\ pc = "idle"
    /\ LET u == upload_blob_to_azure(artifacts, <<c, k>>, v, TRUE, FALSE)
       IN  /\ artifacts' = u.store
           /\ lastUpload' = [container |-> c, name |-> k, content |-> v,
                             existed |-> <<c, k>> \in DOMAIN artifacts,
                             prev |-> IF <<c, k>> \in DOMAIN artifacts
                                      THEN artifacts[<<c, k>>] ELSE 0,
                             ok |-> u.ok]
    /\ UNCHANGED <<driverVars, run, task_id, chunk, idx, completed, failed_files,
                   processed_count, files, clock, fate, faults, attempts, produced,
                   deleted, prior, ckptCalls, lastCkpt, batch_logs, pollVars,
                   cl_items, cl_size, cl_result, extVars>>

NextUpload ==
    \E c \in {"processed-cogs", "raw-data"}, k \in 1..MaxKeys, v \in 1..MaxContents :
        UploadCall(c, k, v)

SpecUpload == InitUpload /\ [][NextUpload]_vars

\* ------------------------------------------------ chunker specification
RECURSIVE SeqsUpTo(_, _)
SeqsUpTo(S, n) ==
    IF n = 0 THEN {<<>>}
    ELSE LET shorter == SeqsUpTo(S, n - 1)
         IN  shorter \cup {Append(q, x) : q \in shorter, x \in S}

InitChunks ==
    /\ Idle /\ lastUpload = NoUpload /\ ExtIdle
    /\ cl_items \in SeqsUpTo(1..MaxVal, MaxItems)
    /\ cl_size \in (0 - MaxChunkSize)..MaxChunkSize
    /\ cl_result = [called |-> FALSE, raised |-> FALSE, chunks |-> <<>>]

CallCreateChunks ==
    /\ ~cl_result.called
    /\ LET r == create_chunks(cl_items, cl_size)
       IN  cl_result' = [called |-> TRUE, raised |-> r.raised, chunks |-> r.chunks]
    /\ UNCHANGED <<driverVars, runnerVars, batch_logs, pollVars, lastUpload,
                   cl_items, cl_size, extVars>>

NextChunks == CallCreateChunks

SpecChunks == InitChunks /\ [][NextChunks]_vars


\* ------------------------------------------------- naming specification
\* decompress_convert_to_cog called on one work item, on an empty workspace
InitNaming ==
    /\ Idle
    /\ lastUpload = NoUpload /\ cl_items = <<>> /\ cl_size = 1
    /\ cl_result = [called |-> FALSE, raised |-> FALSE, chunks |-> <<>>]
    /\ nm_url \in SeqsUpTo(UrlTokens, MaxUrlLen)
    /\ nm_year \in Years
    /\ nm_fate \in {"ok", "download", "status", "gzip", "clip"}
    /\ nm_result = NoOutcome
    /\ mon_summary = NoSummary
    /\ DispatchIdle /\ ConcIdle /\ CleanIdle /\ RetryIdle /\ CatalogIdle

CallProcessor ==
    /\ ~nm_result.called
    /\ LET r == ProcessWorkItem(nm_url, nm_year, nm_fate, {})
       IN  nm_result' = [called |-> TRUE, raised |-> r.raised, err |-> r.err,
                         downloaded |-> r.downloaded, name |-> r.name,
                         files |-> r.files]
    /\ UNCHANGED <<driverVars, runnerVars, batch_logs, pollVars, lastUpload,
                   cl_items, cl_size, cl_result, nm_url, nm_year, nm_fate,
                   mon_summary, dispatchVars, concVars, cleanVars, retryVars, catalogVars>>

NextNaming == CallProcessor

SpecNaming == InitNaming /\ [][NextNaming]_vars

\* --------------------------------------------- aggregator specification
\* progress_monitor.py main, single check, on a batch-logs container that
\* holds up to MaxBlobs blobs named task_<i>.json
MonitorTask(i) == TaskPrefix \o IntToStr(i)
Ages == {0} \cup ((StaleAfter - MaxAgeSlack)..(StaleAfter + MaxAgeSlack))
MonitorNow == StaleAfter + MaxAgeSlack
OneFailure == <<[item |-> 1, Error |-> [kind |-> "DownloadError", attempt |-> 1]]>>

\* a batch_number that is a Python int, as the local driver's enumerate
\* passes it; a str batch_number is a sequence of characters
IntId(i) == <<"int", i>>
IsInt(batch_number) == Len(batch_number) = 2 /\ batch_number[1] = "int"

\* a name of the container that holds no blob
NoBlob == [absent |-> TRUE]

\* what the blob of task i may hold
BlobContents(i) ==
    {NotJson}
    \cup {[batch_number |-> MonitorTask(i), completed |-> 0, failed_files |-> <<>>]}
    \cup {ProgressRecord(MonitorTask(i), 0, <<>>, BadStamp)}
    \cup {ProgressRecord(MonitorTask(i), c, f, MonitorNow - a) :
            c \in 0..MaxCompleted, f \in {<<>>, OneFailure}, a \in Ages}
    \cup {ProgressRecord(IntId(i), 0, <<>>, MonitorNow - a) :
            a \in {0, StaleAfter + MaxAgeSlack}}

InitMonitor ==
    /\ entry = "local" /\ payload = "ok" /\ work_items = <<>>
    /\ pc = "monitor" /\ exitCode = -1
    /\ RunnerStart /\ SideIdle
    /\ files = {} /\ artifacts = <<>>
    /\ fate = [k \in 1..MaxLen |-> "unknown"] /\ faults = 0
    /\ produced = {} /\ prior = {} /\ run = 1 /\ task_id = <<>>
    /\ progress_data = <<>> /\ pollFresh = FALSE
    /\ clock = MonitorNow
    /\ \E held \in [0..(MaxBlobs - 1) -> BlobContents(0) \cup {NoBlob}] :
          batch_logs =
              [k \in {ProgressKey(MonitorTask(i)) :
                         i \in {j \in 0..(MaxBlobs - 1) : held[j] # NoBlob}} |->
                  LET i == CHOOSE j \in 0..(MaxBlobs - 1) : ProgressKey(MonitorTask(j)) = k
                  IN  IF held[i] = NotJson THEN NotJson
                      ELSE [held[i] EXCEPT !.batch_number =
                              IF IsInt(@) THEN IntId(i) ELSE MonitorTask(i)]]

\* display_progress: ', '.join(summary['stuck_tasks']) raises TypeError when
\* an element is not a str; it is evaluated only for a non-empty list
display_progress(summary) ==
    [raised |-> \E h \in 1..Len(summary.stuck_tasks) : IsInt(summary.stuck_tasks[h])]

\* main: if progress_data: calculate_overall_progress, display_progress
Calculate ==
    /\ pc = "monitor" /\ pollFresh /\ mon_summary.state = "none"
    /\ IF progress_data = <<>>
       THEN mon_summary' = [mon_summary EXCEPT !.state = "empty"]
       ELSE LET v == calculate_overall_progress(progress_data, clock)
            IN  mon_summary' = [state |-> IF v.raised THEN "raised"
                                          ELSE IF display_progress(v).raised
                                          THEN "display_raised" ELSE "ok",
                                value |-> v]
    /\ UNCHANGED <<driverVars, runnerVars, batch_logs, pollVars, lastUpload,
                   cl_items, cl_size, cl_result, namingVars, dispatchVars,
                   concVars, cleanVars, retryVars, catalogVars>>

\* calculate_overall_progress called on whatever the poll returned, also
\* on an empty list
CallCalculate ==
    /\ pc = "monitor" /\ pollFresh /\ mon_summary.state = "none"
    /\ mon_summary' = [state |-> "called",
                        value |-> calculate_overall_progress(progress_data, clock)]
    /\ UNCHANGED <<driverVars, runnerVars, batch_logs, pollVars, lastUpload,
                   cl_items, cl_size, cl_result, namingVars, dispatchVars,
                   concVars, cleanVars, retryVars, catalogVars>>

NextMonitor == Poll \/ Calculate \/ CallCalculate

SpecMonitor == InitMonitor /\ [][NextMonitor]_vars

\* --------------------------------------------- dispatcher specification
\* batch_job_creator.py main on a catalog whose listing is dp_listing

\* f"{i:03d}"
Pad3(i) ==
    LET s == IntToStr(i)
    IN  IF Len(s) >= IdWidth THEN s
        ELSE [k \in 1..(IdWidth - Len(s)) |-> "0"] \o s

\* task_id = f"task{i:03d}"
DispatchTaskId(i) == <<"t", "a", "s", "k">> \o Pad3(i)

\* job_id = f"chirps-processing-{now}"
JobId(now) == <<"chirps-processing-">> \o IntToStr(now)

\* one blob name for every task of the job
payload_blob_shared(job_id, tid) == job_id \o <<"/">> \o <<"_work_items.json">>

\* blob_name = f"{job_id}/{task_id}_work_items.json"
PayloadBlob(job_id, tid) == job_id \o <<"/">> \o tid \o <<"_work_items.json">>

\* data_urls and work_items: the k-th link under the i-th listed year url
\* is given the year 1981 + index, whatever the year url says; the link's
\* url is the year segment followed by the file's name
WorkItemsOf(listing) ==
    Concat([i \in 1..Len(listing) |->
              [k \in 1..listing[i].links |->
                  [year |-> FirstYear + (i - 1),
                   url |-> <<YearDir(listing[i].year), <<"txt", k>>>>]]])

\* main's early returns with only the first test
stops_on_no_years(year_urls, items, chunks) ==
    year_urls = <<>>

\* main's early returns: not year_urls, not work_items, not work_items_chunks
stops_before_dispatch(year_urls, items, chunks) ==
    year_urls = <<>> \/ items = <<>> \/ chunks = <<>>

\* the handler printing the first failed task only
report_first_failure(failure_tasks) ==
    <<<<failure_tasks[1].task_id, failure_tasks[1].error.code,
        failure_tasks[1].error.message>>>>

\* except CreateTasksErrorException: for failure in e.failure_tasks: print
\* Task ID, Error Code, Error Message
report_failures(failure_tasks) ==
    [j \in 1..Len(failure_tasks) |->
        <<failure_tasks[j].task_id, failure_tasks[j].error.code,
          failure_tasks[j].error.message>>]

\* the provider's client errors for a task it refuses
ErrorCodes == {"TaskExists", "InvalidPropertyValue"}

UrlCounts == {m * ChunkSize + d : m \in 0..1, d \in 0..MaxExtraUrls}

\* the year directories a root listing may hold, and the root listings: the
\* year sub-listings in ascending order, each with its number of links
ListedYears == FirstYear..(FirstYear + MaxListedYears)
Listings ==
    {s \in SeqsUpTo([year : ListedYears, links : UrlCounts], MaxListedYears) :
        \A j \in 1..(Len(s) - 1) : s[j].year < s[j + 1].year}

nonDispatchVars == <<driverVars, runnerVars, batch_logs, pollVars, lastUpload,
                     cl_items, cl_size, cl_result, namingVars, mon_summary,
                     concVars, cleanVars, retryVars, catalogVars>>

InitDispatch ==
    /\ Idle
    /\ lastUpload = NoUpload /\ cl_items = <<>> /\ cl_size = 1
    /\ cl_result = [called |-> FALSE, raised |-> FALSE, chunks |-> <<>>]
    /\ NamingIdle /\ mon_summary = NoSummary /\ ConcIdle /\ CleanIdle /\ RetryIdle /\ CatalogIdle
    /\ dp_pc = "start"
    /\ dp_listing \in Listings
    /\ dp_items = <<>> /\ dp_chunks = <<>>
    /\ dp_job_id = <<>> /\ dp_provider = NoProvider /\ dp_task_data = <<>>
    /\ dp_tasks = <<>> /\ dp_failures = <<>> /\ dp_printed = <<>>

\* main up to the try: discovery, work_items, create_chunks(work_items) with
\* the default chunk size, and the three early returns
DispatchMain ==
    /\ dp_pc = "start"
    /\ LET items  == WorkItemsOf(dp_listing)
           chunks == create_chunks(items, ChunkSize).chunks
       IN  /\ dp_items' = items
           /\ dp_chunks' = chunks
           /\ dp_pc' = IF stops_before_dispatch(dp_listing, items, chunks)
                       THEN "stopped" ELSE "job"
    /\ UNCHANGED <<dp_listing, dp_job_id, dp_provider, dp_task_data, dp_tasks,
                   dp_failures, dp_printed, nonDispatchVars>>

\* create_batch_job: batch_client.job.add(job); any exception reaches main's
\* except Exception, which prints it
create_batch_job ==
    /\ dp_pc = "job"
    /\ \E ok \in BOOLEAN :
          IF ok
          THEN /\ dp_job_id' = JobId(clock)
               /\ dp_provider' = [dp_provider EXCEPT !.jobs = @ \cup {JobId(clock)}]
               /\ dp_pc' = "tasks"
               /\ UNCHANGED dp_printed
          ELSE /\ dp_pc' = "done"
               /\ dp_printed' = <<<<"error", "job">>>>
               /\ UNCHANGED <<dp_job_id, dp_provider>>
    /\ UNCHANGED <<dp_listing, dp_items, dp_chunks, dp_task_data, dp_tasks,
                   dp_failures, nonDispatchVars>>

\* one round of the loop of create_and_submit_tasks: upload the chunk as
\* task-data/<job_id>/<task_id>_work_items.json with overwrite=True and
\* append the TaskAddParameter; an exception of the upload reaches main's
\* except Exception
BuildTask ==
    /\ dp_pc = "tasks" /\ Len(dp_tasks) < Len(dp_chunks)
    /\ LET i         == Len(dp_tasks)
           tid       == DispatchTaskId(i)
           blob_name == PayloadBlob(dp_job_id, tid)
       IN  \E ok \in BOOLEAN :
              IF ok
              THEN /\ dp_task_data' = [n \in DOMAIN dp_task_data \cup {blob_name} |->
                                         IF n = blob_name THEN dp_chunks[i + 1]
                                         ELSE dp_task_data[n]]
                   /\ dp_tasks' = Append(dp_tasks, [id |-> tid, resource_file |-> blob_name])
                   /\ UNCHANGED <<dp_pc, dp_printed>>
              ELSE /\ dp_pc' = "done"
                   /\ dp_printed' = <<<<"error", "upload">>>>
                   /\ UNCHANGED <<dp_task_data, dp_tasks>>
    /\ UNCHANGED <<dp_listing, dp_items, dp_chunks, dp_job_id, dp_provider,
                   dp_failures, nonDispatchVars>>

\* batch_client.task.add_collection(job_id, tasks): the provider keeps the
\* tasks it accepts and the call raises CreateTasksErrorException when it
\* refused some; main's handler prints every failure and returns
Submit ==
    /\ dp_pc = "tasks" /\ Len(dp_tasks) = Len(dp_chunks)
    /\ \E rejected \in SUBSET {dp_tasks[j].id : j \in 1..Len(dp_tasks)}, code \in ErrorCodes :
          LET Refused(t)  == t.id \in rejected
              Accepted(t) == t.id \notin rejected
              refused     == SelectSeq(dp_tasks, Refused)
              accepted    == SelectSeq(dp_tasks, Accepted)
              failure_tasks ==
                  [j \in 1..Len(refused) |->
                      [task_id |-> refused[j].id,
                       error |-> [code |-> code, message |-> <<"refused: ", code>>]]]
          IN  /\ dp_provider' = [dp_provider EXCEPT !.tasks =
                                   @ \cup {<<dp_job_id, accepted[j].id>> : j \in 1..Len(accepted)}]
              /\ dp_failures' = failure_tasks
              /\ dp_printed' = IF failure_tasks = <<>> THEN <<>>
                               ELSE report_failures(failure_tasks)
    /\ dp_pc' = "done"
    /\ UNCHANGED <<dp_listing, dp_items, dp_chunks, dp_job_id, dp_task_data,
                   dp_tasks, nonDispatchVars>>

NextDispatch == DispatchMain \/ create_batch_job \/ BuildTask \/ Submit

SpecDispatch == InitDispatch /\ [][NextDispatch]_vars

\* ------------------------------------------ concurrent worker runners
\* One execution of process_batch_with_progress(chunk, task_id) per chunk of
\* a partition, task_id being the chunk's index as enumerate gives it; the
\* executions share the Durable Store and nothing else, and interleave
\* item by item.
Txt1 == <<"txt", 1>>

\* urls of the catalog's shape: some text, the year segment, a tail
ConcUrls(y) ==
    {<<pre, YearDir(y)>> \o tail :
        pre \in {Txt, Txt1},
        tail \in SeqsUpTo({Txt, Txt1, Gz}, MaxTailLen) \ {<<>>}}

ConcItems == UNION {{[url |-> u, year |-> y] : u \in ConcUrls(y)} : y \in Years}

\* the artifact keys f"{year}/{cog_file_name}" and f"{year}/{raw_file_name}"
\* of an item whose derived raw file name is name
ArtifactItem(year, name) == <<year, name>>

baseVars == <<driverVars, runnerVars, batch_logs, pollVars, lastUpload,
              cl_items, cl_size, cl_result, namingVars, mon_summary, dispatchVars,
              cleanVars, retryVars, catalogVars>>

InitConc ==
    /\ Idle
    /\ lastUpload = NoUpload /\ cl_items = <<>> /\ cl_size = 1
    /\ cl_result = [called |-> FALSE, raised |-> FALSE, chunks |-> <<>>]
    /\ NamingIdle /\ mon_summary = NoSummary /\ DispatchIdle /\ CleanIdle
    /\ RetryIdle /\ CatalogIdle
    /\ \E items \in [1..MaxConcItems -> ConcItems] :
          /\ \A j, h \in 1..MaxConcItems : j # h => items[j].url # items[h].url
          /\ cc_chunks = create_chunks(items, MaxConcChunk).chunks
    /\ cc_idx = [t \in 1..Len(cc_chunks) |-> 1]
    /\ cc_stage = [t \in 1..Len(cc_chunks) |-> "run"]
    /\ cc_done = [t \in 1..Len(cc_chunks) |-> 0]
    /\ cc_failed = [t \in 1..Len(cc_chunks) |-> <<>>]
    /\ cc_artifacts = <<>> /\ cc_logs = <<>>
    /\ cc_calls = {} /\ cc_logcalls = {}

\* one round of the loop of process_batch_with_progress in task t - 1
ConcItem(t) ==
    /\ cc_stage[t] = "run" /\ cc_idx[t] <= Len(cc_chunks[t])
    /\ LET item == cc_chunks[t][cc_idx[t]]
           n    == raw_file_name(item.url, item.year)
           key  == ArtifactItem(item.year, n.name)
           r    == HandleItem(key, "ok", {}, cc_artifacts, t - 1)
           last == cc_idx[t] = Len(cc_chunks[t])
       IN  IF n.raised
           THEN /\ cc_failed' = [cc_failed EXCEPT ![t] = Append(@, [item |-> item, Error |-> "IndexError"])]
                /\ cc_stage' = [cc_stage EXCEPT ![t] = IF last THEN "done" ELSE "run"]
                /\ UNCHANGED <<cc_done, cc_artifacts, cc_calls>>
           ELSE /\ cc_calls' = cc_calls \cup {<<CogBlob(key), t - 1>>}
                                \cup (IF CogBlob(key) \in DOMAIN cc_artifacts THEN {}
                                      ELSE {<<RawBlob(key), t - 1>>})
                /\ cc_artifacts' = r.blobs
                /\ IF r.ok
                   THEN /\ cc_done' = [cc_done EXCEPT ![t] = @ + 1]
                        /\ cc_stage' = [cc_stage EXCEPT ![t] =
                              IF (cc_done[t] + 1) % CheckpointEvery = 0 \/ last
                              THEN "ckpt" ELSE "run"]
                        /\ UNCHANGED cc_failed
                   ELSE /\ cc_failed' = [cc_failed EXCEPT ![t] = Append(@, [item |-> item, Error |-> r.err])]
                        /\ cc_stage' = [cc_stage EXCEPT ![t] = IF last THEN "done" ELSE "run"]
                        /\ UNCHANGED cc_done
    /\ cc_idx' = [cc_idx EXCEPT ![t] = @ + 1]
    /\ UNCHANGED <<cc_chunks, cc_logs, cc_logcalls, baseVars>>

\* update_progress_file(task_id, len(completed), failed_files) in task t - 1
ConcCheckpoint(t) ==
    /\ cc_stage[t] = "ckpt"
    /\ LET name == ProgressKey(IntToStr(t - 1))
           rec  == ProgressRecord(IntToStr(t - 1), cc_done[t], cc_failed[t], clock)
           u    == upload_blob_to_azure(cc_logs, name, rec, TRUE, FALSE)
       IN  /\ cc_logcalls' = cc_logcalls \cup {<<name, t - 1>>}
           /\ cc_logs' = u.store
           /\ cc_stage' = [cc_stage EXCEPT ![t] =
                 IF ~u.ok THEN "crashed"
                 ELSE IF cc_idx[t] > Len(cc_chunks[t]) THEN "done" ELSE "run"]
    /\ UNCHANGED <<cc_chunks, cc_idx, cc_done, cc_failed, cc_artifacts, cc_calls,
                   baseVars>>

RunItem == \E t \in 1..Len(cc_chunks) : ConcItem(t)
RunCheckpoint == \E t \in 1..Len(cc_chunks) : ConcCheckpoint(t)

NextConc == RunItem \/ RunCheckpoint

SpecConc == InitConc /\ [][NextConc]_vars

\* ------------------------------------------------- cleanup specification
\* cleanup_local_files called on a path or on a list of (cog, raw) pairs,
\* with any of the files present or missing

CleanPairs == {<<CogFile(k), RawFile(k)>> : k \in 1..MaxCleanPairs}
CleanPaths == {CogFile(k) : k \in 1..MaxCleanPairs} \cup {RawFile(k) : k \in 1..MaxCleanPairs}

InitCleanup ==
    /\ Idle
    /\ lastUpload = NoUpload /\ cl_items = <<>> /\ cl_size = 1
    /\ cl_result = [called |-> FALSE, raised |-> FALSE, chunks |-> <<>>]
    /\ NamingIdle /\ mon_summary = NoSummary /\ DispatchIdle /\ ConcIdle
    /\ RetryIdle /\ CatalogIdle
    /\ cu_arg \in {[kind |-> "str", path |-> p] : p \in CleanPaths \cup {LogFile}}
                  \cup {[kind |-> "list", pairs |-> q] :
                          q \in {s \in SeqsUpTo(CleanPairs, MaxCleanPairs) :
                                   \A j, h \in 1..Len(s) : j # h => s[j] # s[h]}}
    /\ cu_files \in SUBSET (CleanPaths \cup {LogFile})
    /\ cu_result = NoCleanup

CallCleanup ==
    /\ ~cu_result.called
    /\ IF cu_arg.kind = "str"
       THEN LET r == cleanup_local_path(cu_arg.path, cu_files)
            IN  /\ cu_files' = r.files
                /\ cu_result' = [called |-> TRUE, raised |-> r.raised]
       ELSE /\ cu_files' = cleanup_local_files(cu_arg.pairs, cu_files)
            /\ cu_result' = [called |-> TRUE, raised |-> FALSE]
    /\ UNCHANGED <<driverVars, runnerVars, batch_logs, pollVars, lastUpload,
                   cl_items, cl_size, cl_result, namingVars, mon_summary,
                   dispatchVars, concVars, retryVars, catalogVars, cu_arg>>

NextCleanup == CallCleanup

SpecCleanup == InitCleanup /\ [][NextCleanup]_vars

\* --------------------------------------------------- retry specification
\* decompress_convert_to_cog_with_retry(work_item, directory, max_retries)
\* with every outcome of every invocation of the processor

\* the tuple decompress_convert_to_cog returns for an item
ProcessedArtifact(item) ==
    <<CogFile(item), <<"nigeria-cog-", item>>, RawFile(item), <<"name", item>>>>

\* the values of uniform(1, 3), in steps of 1/MaxJitterSteps second
Jitters == (JitterLow * MaxJitterSteps)..(JitterHigh * MaxJitterSteps - 1)

\* a wrapper that sleeps after every failed attempt
sleeps_after_every(attempt, retries) == TRUE

\* if attempt < max_retries - 1: sleep, else: raise e
sleeps_after(attempt, retries) == attempt < retries - 1

\* wait_time = uniform(1, 3) * (2 ** attempt)
wait_time(jitter, attempt) == jitter * (BackoffBase ^ attempt)

InitRetry ==
    /\ Idle
    /\ lastUpload = NoUpload /\ cl_items = <<>> /\ cl_size = 1
    /\ cl_result = [called |-> FALSE, raised |-> FALSE, chunks |-> <<>>]
    /\ NamingIdle /\ mon_summary = NoSummary /\ DispatchIdle /\ ConcIdle
    /\ CleanIdle /\ CatalogIdle
    /\ rt_max \in 0..MaxRetries
    /\ rt_attempt = 0 /\ rt_calls = <<>> /\ rt_sleeps = <<>>
    /\ rt_state = "loop" /\ rt_value = None /\ rt_error = None

retryFrame == <<driverVars, runnerVars, batch_logs, pollVars, lastUpload,
                cl_items, cl_size, cl_result, namingVars, mon_summary,
                dispatchVars, concVars, cleanVars, catalogVars, rt_max>>

\* one round of for attempt in range(max_retries): the processor is called;
\* on success the function returns (a bare return); on an exception it
\* sleeps and goes on, or raises the exception after the last attempt
RetryAttempt ==
    /\ rt_state = "loop" /\ rt_attempt < rt_max
    /\ \E ok \in BOOLEAN, jitter \in Jitters :
          IF ok
          THEN /\ rt_calls' = Append(rt_calls, [ok |-> TRUE, value |-> ProcessedArtifact(1)])
               /\ rt_state' = "returned"
               /\ rt_value' = None
               /\ UNCHANGED <<rt_attempt, rt_sleeps, rt_error>>
          ELSE /\ rt_calls' = Append(rt_calls, [ok |-> FALSE, value |-> <<"error", rt_attempt>>])
               /\ IF sleeps_after(rt_attempt, rt_max)
                  THEN /\ rt_sleeps' = Append(rt_sleeps, wait_time(jitter, rt_attempt))
                       /\ rt_attempt' = rt_attempt + 1
                       /\ UNCHANGED <<rt_state, rt_error>>
                  ELSE /\ rt_state' = "raised"
                       /\ rt_error' = <<"error", rt_attempt>>
                       /\ UNCHANGED <<rt_attempt, rt_sleeps>>
               /\ UNCHANGED rt_value
    /\ UNCHANGED retryFrame

\* range(max_retries) is exhausted: the function ends and returns None
RetryExhausted ==
    /\ rt_state = "loop" /\ rt_attempt >= rt_max
    /\ rt_state' = "returned" /\ rt_value' = None
    /\ UNCHANGED <<rt_attempt, rt_calls, rt_sleeps, rt_error, retryFrame>>

NextRetry == RetryAttempt \/ RetryExhausted

SpecRetry == InitRetry /\ [][NextRetry]_vars

\* ------------------------------------------------------ catalog ingestion
\* optimized_batch_ingest, from the search result on: the items found are
\* 1..ig_items.  A post of an item collection either raises (no answer) or
\* is answered with a status code and a body: a JSON object with an id, a
\* JSON object without one, or text that response.json() rejects.
PostOutcomes ==
    {[raised |-> TRUE, status |-> 0, body |-> "none"]}
    \cup {[raised |-> FALSE, status |-> c, body |-> b] :
              c \in StatusCodes, b \in {"id", "no id", "text"}}

\* operation_id = response.json().get('id')
operation_id(out, n) == IF out.body = "id" THEN <<"op", n>> ELSE None

InitIngest ==
    /\ Idle
    /\ lastUpload = NoUpload /\ cl_items = <<>> /\ cl_size = 1
    /\ cl_result = [called |-> FALSE, raised |-> FALSE, chunks |-> <<>>]
    /\ NamingIdle /\ mon_summary = NoSummary /\ DispatchIdle /\ ConcIdle
    /\ CleanIdle /\ RetryIdle /\ OpsIdle
    /\ ig_items \in 0..MaxIngestItems
    /\ ig_batch_size \in 1..MaxBatchSize
    /\ ig_item = 1 /\ ig_batch = <<>> /\ ig_posted = <<>>
    /\ ig_total_ingested = 0 /\ ig_total_searched = 0 /\ ig_batch_num = 0
    /\ ig_operation_ids = <<>> /\ ig_pc = "loop"

ingestFrame == <<driverVars, runnerVars, batch_logs, pollVars, lastUpload,
                 cl_items, cl_size, cl_result, namingVars, mon_summary,
                 dispatchVars, concVars, cleanVars, retryVars, opsVars,
                 ig_items, ig_batch_size>>

\* one round of for item in items, inside the try: the item is converted,
\* counted and appended to batch; a batch that has reached batch_size is
\* posted, counted when accepted, and reset.  Any exception (item.to_dict,
\* requests.post, response.json) ends the loop at the except clause, with
\* batch as it was.
IngestItem ==
    /\ ig_pc = "loop" /\ ig_item <= ig_items
    /\ \E converts \in BOOLEAN, out \in PostOutcomes :
          LET full == Append(ig_batch, ig_item) IN
          IF ~converts
          THEN /\ ig_pc' = "final"
               /\ UNCHANGED <<ig_item, ig_batch, ig_posted, ig_total_ingested,
                              ig_total_searched, ig_batch_num, ig_operation_ids>>
          ELSE
            /\ ig_total_searched' = ig_total_searched + 1
            /\ IF Len(full) < ig_batch_size
               THEN /\ ig_batch' = full /\ ig_item' = ig_item + 1
                    /\ UNCHANGED <<ig_posted, ig_total_ingested, ig_batch_num,
                                   ig_operation_ids, ig_pc>>
               ELSE
                 /\ ig_batch_num' = ig_batch_num + 1
                 /\ IF out.raised
                    THEN /\ ig_batch' = full /\ ig_pc' = "final"
                         /\ UNCHANGED <<ig_item, ig_posted, ig_total_ingested,
                                        ig_operation_ids>>
                    ELSE
                      /\ ig_posted' = Append(ig_posted,
                             [features |-> full, status |-> out.status])
                      /\ IF out.status \in AcceptedCodes
                         THEN IF out.body = "text"
                              THEN /\ ig_batch' = full /\ ig_pc' = "final"
                                   /\ UNCHANGED <<ig_item, ig_total_ingested,
                                                  ig_operation_ids>>
                              ELSE /\ ig_operation_ids' = Append(ig_operation_ids,
                                          operation_id(out, ig_batch_num + 1))
                                   /\ ig_total_ingested' = ig_total_ingested + Len(full)
                                   /\ ig_batch' = <<>> /\ ig_item' = ig_item + 1
                                   /\ UNCHANGED ig_pc
                         ELSE /\ ig_batch' = <<>> /\ ig_item' = ig_item + 1
                              /\ UNCHANGED <<ig_total_ingested, ig_operation_ids,
                                             ig_pc>>
    /\ UNCHANGED ingestFrame

\* after the loop (ended or interrupted): if batch: the remaining items are
\* posted as the final batch, outside the try, so an exception leaves the
\* function; batch is not reset
IngestFinal ==
    /\ ig_pc = "final" \/ (ig_pc = "loop" /\ ig_item > ig_items)
    /\ \E out \in PostOutcomes :
          IF ig_batch = <<>>
          THEN /\ ig_pc' = "done"
               /\ UNCHANGED <<ig_posted, ig_total_ingested, ig_batch_num,
                              ig_operation_ids>>
          ELSE
            /\ ig_batch_num' = ig_batch_num + 1
            /\ IF out.raised
               THEN /\ ig_pc' = "raised"
                    /\ UNCHANGED <<ig_posted, ig_total_ingested, ig_operation_ids>>
               ELSE
                 /\ ig_posted' = Append(ig_posted,
                        [features |-> ig_batch, status |-> out.status])
                 /\ IF out.status \in AcceptedCodes
                    THEN IF out.body = "text"
                         THEN /\ ig_pc' = "raised"
                              /\ UNCHANGED <<ig_total_ingested, ig_operation_ids>>
                         ELSE /\ ig_operation_ids' = Append(ig_operation_ids,
                                     operation_id(out, ig_batch_num + 1))
                              /\ ig_total_ingested' = ig_total_ingested + Len(ig_batch)
                              /\ ig_pc' = "done"
                    ELSE /\ ig_pc' = "done"
                         /\ UNCHANGED <<ig_total_ingested, ig_operation_ids>>
    /\ UNCHANGED <<ig_item, ig_batch, ig_total_searched, ingestFrame>>

NextIngest == IngestItem \/ IngestFinal

SpecIngest == InitIngest /\ [][NextIngest]_vars

\* --------------------------------------------------- operations monitor
\* monitor_ingestion_operations.  Operation ids are 1..n; a list may name
\* one id twice.  om_status[id] is what a poll of the operation reports at
\* present; "Running" stands for every answer that classifies nothing: a
\* status that is not terminal, a status code other than 200, an exception
\* of the request.  The clock counts the sleeps only.
Elems(s) == {s[j] : j \in 1..Len(s)}

\* [x for x in s if x in keep]
Filter(s, keep) ==
    LET kept == {j \in 1..Len(s) : s[j] \in keep}
    IN [k \in 1..Cardinality(kept) |->
           s[CHOOSE j \in kept : Cardinality({h \in kept : h <= j}) = k]]

\* remaining = [op_id for op_id in operation_ids
\*              if op_id not in completed and op_id not in failed]
remaining_ignoring_failed(ids, done, lost) == Filter(ids, Elems(ids) \ Elems(done))
remaining(ids, done, lost) ==
    Filter(ids, Elems(ids) \ (Elems(done) \cup Elems(lost)))

\* remaining[:5]
poll_window(rest) == PySlice(rest, 0, PollsPerRound)

\* the polls of one round, in the order of window: the ids whose poll
\* reports a status of names are appended, each as often as it is polled
appended(window, status, names) ==
    Filter(window, {op_id \in Elems(window) : status[op_id] \in names})

\* the polls of one round made of ids classified already: in an earlier
\* round (before holds the ids classified when the round began), or by an
\* earlier poll of the same round
polled_again(window, status, before) ==
    {<<window[k], "later round">> : k \in {h \in 1..Len(window) : window[h] \in before}}
    \cup {<<window[k], "same round">> :
             k \in {h \in 1..Len(window) :
                       /\ window[h] \notin before
                       /\ status[window[h]] \in SucceededNames \cup FailedNames
                       /\ \E j \in 1..(h - 1) : window[j] = window[h]}}

\* the lists of operation ids: n distinct ids, or n distinct ids followed by
\* the first or the last of them once more
Ids(n) == [j \in 1..n |-> j]
OpLists ==
    {Ids(n) : n \in 0..MaxOps}
    \cup UNION {{Append(Ids(n), k) : k \in {1, n}} : n \in 1..(MaxOps - 1)}

\* the terminal status the service reports for an operation, once ended:
\* the four names the code tests for, in turn
TerminalName(op_id) ==
    <<"Succeeded", "Failed", "Completed", "Canceled">>[((op_id - 1) % 4) + 1]

InitOps ==
    /\ Idle
    /\ lastUpload = NoUpload /\ cl_items = <<>> /\ cl_size = 1
    /\ cl_result = [called |-> FALSE, raised |-> FALSE, chunks |-> <<>>]
    /\ NamingIdle /\ mon_summary = NoSummary /\ DispatchIdle /\ ConcIdle
    /\ CleanIdle /\ RetryIdle /\ IngestIdle
    /\ om_operation_ids \in OpLists
    /\ om_timeout_seconds \in {k * PollInterval : k \in 0..MaxTimeoutRounds}
    /\ \E running \in SUBSET Elems(om_operation_ids) :
          /\ Cardinality(running) <= MaxRunning
          /\ om_status = [op_id \in Elems(om_operation_ids) |->
                             IF op_id \in running THEN "Running"
                             ELSE TerminalName(op_id)]
    /\ om_completed = <<>> /\ om_failed = <<>> /\ om_elapsed = 0
    /\ om_stale = {} /\ om_pc = "loop"

opsFrame == <<driverVars, runnerVars, batch_logs, pollVars, lastUpload,
              cl_items, cl_size, cl_result, namingVars, mon_summary,
              dispatchVars, concVars, cleanVars, retryVars, ingestVars,
              om_operation_ids, om_timeout_seconds>>

Remaining == remaining(om_operation_ids, om_completed, om_failed)

\* one round of the while loop with ids remaining: the first 5 are polled,
\* then time.sleep(30)
MonitorRound ==
    /\ om_pc = "loop" /\ om_elapsed < om_timeout_seconds
    /\ \E rest \in {Remaining} :
        /\ rest # <<>>
        /\ \E window \in {poll_window(rest)} :
            /\ om_completed' = om_completed \o appended(window, om_status, SucceededNames)
            /\ om_failed' = om_failed \o appended(window, om_status, FailedNames)
            /\ om_stale' = om_stale \cup polled_again(window, om_status,
                                   Elems(om_completed) \cup Elems(om_failed))
    /\ om_elapsed' = om_elapsed + PollInterval
    /\ UNCHANGED <<om_status, om_pc, opsFrame>>

\* if not remaining: "All operations completed!", break
MonitorAllDone ==
    /\ om_pc = "loop" /\ om_elapsed < om_timeout_seconds
    /\ Remaining = <<>>
    /\ om_pc' = "done"
    /\ UNCHANGED <<om_status, om_completed, om_failed, om_elapsed, om_stale, opsFrame>>

\* the while condition fails: "Timeout reached after ... seconds"
MonitorTimeout ==
    /\ om_pc = "loop" /\ om_elapsed >= om_timeout_seconds
    /\ om_pc' = "timeout"
    /\ UNCHANGED <<om_status, om_completed, om_failed, om_elapsed, om_stale, opsFrame>>

\* the service ends an operation: from now on its polls report a terminal
\* status
OperationEnds ==
    /\ \E op_id \in DOMAIN om_status :
          /\ om_status[op_id] = "Running"
          /\ om_status' = [om_status EXCEPT ![op_id] = TerminalName(op_id)]
    /\ UNCHANGED <<om_completed, om_failed, om_elapsed, om_stale, om_pc, opsFrame>>

NextOps == MonitorRound \/ MonitorAllDone \/ MonitorTimeout \/ OperationEnds

SpecOps == InitOps /\ [][NextOps]_vars

\* the monitor's loop is sequential code that goes on while it can, and
\* every running operation ends at some time
SpecOpsFair ==
    /\ SpecOps
    /\ WF_vars(MonitorRound \/ MonitorAllDone \/ MonitorTimeout)
    /\ WF_vars(OperationEnds)

\* ================================================================ claims
Terminated == pc \in {"done", "crashed", "exited"}
CompletedFiles == {completed[j] : j \in 1..Len(completed)}
IsCompleted(item) == <<CogFile(item), RawFile(item)>> \in CompletedFiles
Uploaded(item) == {CogBlob(item), RawBlob(item)} \subseteq DOMAIN artifacts
FailedEntries(item) == {j \in 1..Len(failed_files) : failed_files[j].item = item}
UploadErrors == {"TransportError", "ResourceExistsError", "FileNotFoundError"}
BlobOf(f) == IF f[1] = "cog" THEN CogBlob(f[2]) ELSE RawBlob(f[2])

\* C1: when the first execution of a chunk has ended, every item of the
\* chunk has been handled: an item that does not fail has both artifacts in
\* the store, a failing item has exactly one failed_files entry, and both
\* lists are in chunk order; nothing ends the loop before the last item.
C1_EveryItemHandled ==
    (run = 1 /\ Terminated /\ chunk # <<>>) =>
        /\ \A k \in 1..Len(chunk) :
              /\ fate[chunk[k]] # "unknown"
              /\ fate[chunk[k]] = "ok" => IsCompleted(chunk[k]) /\ Uploaded(chunk[k])
              /\ fate[chunk[k]] # "ok" => Cardinality(FailedEntries(chunk[k])) = 1
        /\ \A a, b \in 1..Len(failed_files) :
              a < b => failed_files[a].item < failed_files[b].item
        /\ \A a, b \in 1..Len(completed) :
              a < b => completed[a][1][2] < completed[b][1][2]

\* C2: an item whose processing fails is recorded in failed_files after
\* exactly max_retries invocations of the Item Processor, with the error of
\* the last (max_retries-th) attempt.
C2_RetriesBeforeFailure ==
    \A j \in 1..Len(failed_files) :
        failed_files[j].Error.kind = "DownloadError" =>
            /\ attempts[failed_files[j].item] = max_retries
            /\ failed_files[j].Error.attempt = max_retries

\* C3: when an execution of a chunk ends, the task's stored record exists
\* and accounts for every item: completed + len(failed_files) = len(chunk)
\* (a checkpoint is written after the last item, succeeded or failed).
C3_FinalRecordAccountsForChunk ==
    (pc = "done" /\ chunk # <<>>) =>
        /\ ProgressKey(task_id) \in DOMAIN batch_logs
        /\ LET rec == batch_logs[ProgressKey(task_id)]
           IN  rec.completed + Len(rec.failed_files) = Len(chunk)

\* C4: after any number of checkpoint writes of a task, batch-logs holds
\* exactly one record, under <task_id>.json, and it is the latest checkpoint.
C4_LatestCheckpointIsStored ==
    ckptCalls >= 1 =>
        /\ DOMAIN batch_logs = {ProgressKey(task_id)}
        /\ batch_logs[ProgressKey(task_id)] = lastCkpt

\* C5: an upload to a name that already holds different content succeeds
\* and leaves the new content under that name.
C5_SecondUploadOverwrites ==
    (lastUpload.existed /\ lastUpload.prev # lastUpload.content) =>
        /\ lastUpload.ok
        /\ artifacts[<<lastUpload.container, lastUpload.name>>] = lastUpload.content

\* C6: a re-execution of a chunk whose items were all uploaded by an earlier
\* execution counts every item as completed, records no failure, and leaves
\* the store with the same artifact names.
C6_RerunIsSafe ==
    (run >= 2 /\ Terminated /\ chunk # <<>>
       /\ \A k \in 1..Len(chunk) : {CogBlob(chunk[k]), RawBlob(chunk[k])} \subseteq prior) =>
        /\ \A k \in 1..Len(chunk) : IsCompleted(chunk[k])
        /\ failed_files = <<>>
        /\ DOMAIN artifacts = prior

C8_PollReturnsEveryRecord ==
    pollFresh =>
        \A k \in DOMAIN batch_logs :
            \E j \in 1..Len(progress_data) : progress_data[j] = batch_logs[k]

\* C9: the batch task runner exits 0 exactly when its payload is well
\* formed, and when it exits non-zero no item has been processed.
C9_ExitCodeReflectsPayload ==
    (entry = "batch" /\ Terminated) =>
        /\ payload = "ok" <=> exitCode = 0
        /\ exitCode # 0 => \A k \in 1..MaxLen : attempts[k] = 0

\* C10: for a positive size, create_chunks returns chunks whose
\* concatenation is the input list, each but the last of length size.
C10_ChunksPartitionList ==
    (cl_result.called /\ cl_size > 0) =>
        /\ ~cl_result.raised
        /\ Concat(cl_result.chunks) = cl_items
        /\ \A j \in 1..(Len(cl_result.chunks) - 1) : Len(cl_result.chunks[j]) = cl_size

\* C10 witness: several chunks, the last one shorter than size.
C10_Witness ==
    /\ cl_result.called /\ cl_size > 0
    /\ Len(cl_result.chunks) >= 2
    /\ Len(cl_result.chunks[Len(cl_result.chunks)]) < cl_size


\* C11: create_chunks raises an error for every chunk size s <= 0, whatever
\* the input list.
C11_RejectsNonPositiveSize ==
    (cl_result.called /\ cl_size <= 0) => cl_result.raised

\* C12: for a positive size no returned chunk is empty, and the result is
\* the empty sequence of chunks exactly when the input list is empty.
C12_NoEmptyChunk ==
    (cl_result.called /\ cl_size > 0) =>
        /\ \A j \in 1..Len(cl_result.chunks) : cl_result.chunks[j] # <<>>
        /\ cl_result.chunks = <<>> <=> cl_items = <<>>

\* C12 witness: a list whose length is a multiple of the size, above one chunk.
C12_Witness ==
    /\ cl_result.called /\ cl_size > 0
    /\ Len(cl_items) = 2 * cl_size
    /\ Len(cl_result.chunks) = 2


\* the Item Processor returned its tuple for the item in this execution:
\* the runner went on to the uploads (line 270), which either both
\* succeeded or one of them raised
ProcessorReturned(item) ==
    \/ IsCompleted(item)
    \/ \E j \in FailedEntries(item) : failed_files[j].Error.kind \in UploadErrors

\* C15: the Item Processor returns an artifact only when it has written both
\* local files; an item whose clip/re-encode step raises makes the processor
\* call fail, and the runner records the item in failed_files with that
\* processor error, not completed.
C15_ArtifactOnlyWithBothFiles ==
    \A k \in 1..Len(chunk) :
        /\ ProcessorReturned(chunk[k]) =>
               {CogFile(chunk[k]), RawFile(chunk[k])} \subseteq produced
        /\ (fate[chunk[k]] = "clip" /\ attempts[chunk[k]] >= 1) =>
               /\ ~ProcessorReturned(chunk[k])
               /\ ~IsCompleted(chunk[k])
               /\ FailedEntries(chunk[k]) # {}


\* the first position of the year segment in the url, 0 when it is absent
FirstYearDir(url, year) ==
    IF \A j \in 1..Len(url) : url[j] # YearDir(year) THEN 0
    ELSE CHOOSE h \in 1..Len(url) :
             url[h] = YearDir(year) /\ \A g \in 1..(h - 1) : url[g] # YearDir(year)

\* s with a trailing ".gz" removed
StripGzSuffix(s) ==
    IF s # <<>> /\ s[Len(s)] = Gz THEN SubSeq(s, 1, Len(s) - 1) ELSE s

\* C19: the derived raw file name is the part of the url after the
\* '<year>/' segment with the '.gz' suffix removed; without a '<year>/'
\* segment the processor fails before any download or file write.
C19_NameIsUrlTailWithoutGz ==
    nm_result.called =>
        LET h == FirstYearDir(nm_url, nm_year) IN
        /\ h = 0 => /\ nm_result.raised /\ ~nm_result.downloaded
                    /\ nm_result.files = {}
        /\ (h > 0 /\ ~nm_result.raised) =>
               nm_result.name = StripGzSuffix(SubSeq(nm_url, h + 1, Len(nm_url)))


\* a blob content the schema accepts: it parses and its fields are well formed
WellFormed(content) ==
    /\ content # NotJson
    /\ DOMAIN content = {"iso_timestamp", "batch_number", "completed", "failed_files"}
    /\ content.iso_timestamp # BadStamp

ListedNames == {k \in DOMAIN batch_logs : StartsWith(k, TaskPrefix) /\ EndsWith(k, JsonSuffix)}

\* C13: with a malformed blob in batch-logs the status check does not raise
\* and every well-formed record, also one listed after the malformed blob,
\* is read by the poll and counted in the summary.
C13_MalformedRecordIsSkipped ==
    /\ mon_summary.state # "raised"
    /\ (pc = "monitor" /\ pollFresh) =>
          \A k \in ListedNames :
              WellFormed(batch_logs[k]) =>
                  \E j \in 1..Len(progress_data) : progress_data[j] = batch_logs[k]
    /\ mon_summary.state = "ok" =>
          mon_summary.value.total_tasks =
              Cardinality({k \in ListedNames : WellFormed(batch_logs[k])})

\* the age the staleness test sees: a record without iso_timestamp is given
\* the current time
AgeOf(task) == clock - Get(task, "iso_timestamp", clock)
StalledRecords == {j \in 1..Len(progress_data) : AgeOf(progress_data[j]) > StaleAfter}

\* C14: a record is listed in stuck_tasks exactly when its age is strictly
\* above 30 minutes, every other record is counted active, and
\* active_tasks + len(stuck_tasks) = total_tasks.
C14_StalledIffOlderThanLimit ==
    mon_summary.state = "ok" =>
        LET v == mon_summary.value IN
        /\ \A j \in 1..Len(progress_data) :
              (j \in StalledRecords) <=>
                  \E h \in 1..Len(v.stuck_tasks) :
                      v.stuck_tasks[h] = progress_data[j].batch_number
        /\ Len(v.stuck_tasks) = Cardinality(StalledRecords)
        /\ v.active_tasks = Len(progress_data) - Cardinality(StalledRecords)
        /\ v.active_tasks + Len(v.stuck_tasks) = v.total_tasks

\* C14 witness: a summary over one record exactly 30 minutes old (active)
\* and one record 31 minutes old (stalled).
C14_Witness ==
    /\ mon_summary.state = "ok"
    /\ \E j \in 1..Len(progress_data) : AgeOf(progress_data[j]) = StaleAfter
    /\ \E j \in 1..Len(progress_data) : AgeOf(progress_data[j]) = StaleAfter + 1
    /\ mon_summary.value.active_tasks = 1
    /\ Len(mon_summary.value.stuck_tasks) = 1


\* the tasks were all built: the loop of create_and_submit_tasks is over
TasksBuilt == dp_pc \in {"tasks", "done"} /\ Len(dp_tasks) = Len(dp_chunks) /\ dp_chunks # <<>>

\* C16: create_and_submit_tasks builds one task per chunk, the task of the
\* chunk at index i has the id "task_" followed by i padded to 3 digits, and
\* distinct chunks have distinct ids.
C16_TaskIdIsPrefixAndPaddedIndex ==
    TasksBuilt =>
        /\ Len(dp_tasks) = Len(dp_chunks)
        /\ \A j \in 1..Len(dp_tasks) : dp_tasks[j].id = TaskPrefix \o Pad3(j - 1)
        /\ \A j, h \in 1..Len(dp_tasks) : j # h => dp_tasks[j].id # dp_tasks[h].id

\* discovery gave no year entry, no work item or no chunk
RECURSIVE SumOf(_)
SumOf(counts) == IF counts = <<>> THEN 0 ELSE Head(counts) + SumOf(Tail(counts))
LinkCounts == [i \in 1..Len(dp_listing) |-> dp_listing[i].links]
EmptyDiscovery == dp_listing = <<>> \/ SumOf(LinkCounts) = 0

\* C17: when discovery yields no year entry, no work item or no chunk, no
\* job is created, no chunk payload is uploaded and no task is submitted.
C17_EmptyDiscoveryStopsBeforeDispatch ==
    (dp_pc # "idle" /\ EmptyDiscovery) =>
        /\ dp_pc \in {"start", "stopped"}
        /\ dp_job_id = <<>> /\ dp_provider = NoProvider
        /\ dp_task_data = <<>> /\ dp_tasks = <<>>

\* C17 witness: main has returned on a catalog that lists a year without
\* any link.
C17_Witness ==
    /\ dp_pc = "stopped" /\ dp_listing # <<>> /\ SumOf(LinkCounts) = 0
    /\ dp_provider = NoProvider

\* C18: after a submission in which the provider refused some tasks, every
\* refused task is reported with its id, error code and message, and the
\* job and the accepted tasks are still held by the provider.
C18_EveryRejectionReportedNoneCancelled ==
    (dp_pc = "done" /\ dp_failures # <<>>) =>
        /\ \A j \in 1..Len(dp_failures) :
              \E h \in 1..Len(dp_printed) :
                  dp_printed[h] = <<dp_failures[j].task_id, dp_failures[j].error.code,
                                    dp_failures[j].error.message>>
        /\ dp_job_id \in dp_provider.jobs
        /\ dp_provider.tasks =
              {<<dp_job_id, dp_tasks[j].id>> : j \in 1..Len(dp_tasks)}
                 \ {<<dp_job_id, dp_failures[j].task_id>> : j \in 1..Len(dp_failures)}

\* C18 witness: a submission of three tasks of which two were refused and
\* one accepted.
C18_Witness ==
    /\ dp_pc = "done" /\ Len(dp_failures) = 2 /\ Len(dp_tasks) = 3
    /\ Cardinality(dp_provider.tasks) = 1
    /\ Len(dp_printed) = 2


\* C20: whatever the interleaving of the runners of the chunks of one
\* partition of items with distinct urls, no artifact key and no progress
\* key is the target of the uploads of two different tasks.
C20_NoKeyWrittenByTwoTasks ==
    /\ \A c, d \in cc_calls : c[1] = d[1] => c[2] = d[2]
    /\ \A c, d \in cc_logcalls : c[1] = d[1] => c[2] = d[2]

\* nothing was handled since the last checkpoint of this execution
JustCheckpointed ==
    /\ ckptCalls >= 1 /\ pc \in {"loop", "crashed"}
    /\ lastCkpt.completed = Len(completed) /\ lastCkpt.failed_files = failed_files

\* C21: right after a checkpoint, the first or a later one, no COG or raw
\* file of an item completed so far is left on the local disk.
C21_NoLocalArtifactAfterCheckpoint ==
    JustCheckpointed =>
        \A j \in 1..Len(completed) :
            completed[j][1] \notin files /\ completed[j][2] \notin files

\* the paths a cleanup call was asked to delete
ListedPaths ==
    IF cu_arg.kind = "str" THEN {cu_arg.path}
    ELSE UNION {{cu_arg.pairs[j][1], cu_arg.pairs[j][2]} : j \in 1..Len(cu_arg.pairs)}

\* C22: cleanup_local_files does not raise when a file to delete is missing,
\* for a path and for a list of pairs, and after the call none of the listed
\* files is left, whichever of them were missing.
C22_CleanupToleratesMissingFile ==
    cu_result.called =>
        /\ ~cu_result.raised
        /\ ListedPaths \cap cu_files = {}

\* C23: when the download answers with a status other than 200, or the
\* payload cannot be decompressed, decompress_convert_to_cog raises and no
\* file was written.
C23_FailedDownloadWritesNothing ==
    (nm_result.called /\ nm_fate \in {"status", "gzip"}) =>
        nm_result.raised /\ nm_result.files = {}

\* C23 witness: the name was derived, the download answered with a status
\* other than 200, and the call raised.
C23_Witness ==
    /\ nm_result.called /\ nm_fate = "status"
    /\ nm_result.downloaded /\ nm_result.raised

\* the invocations of the processor that failed
FailedCalls == {k \in 1..Len(rt_calls) : ~rt_calls[k].ok}

C30_ReturnsArtifactOfSuccessfulAttempt ==
    (rt_state = "returned" /\ rt_calls # <<>> /\ rt_calls[Len(rt_calls)].ok) =>
        rt_value = rt_calls[Len(rt_calls)].value

RECURSIVE SumCompleted(_, _)
\* the sum of the completed values of the first n records
SumCompleted(records, n) ==
    IF n = 0 THEN 0
    ELSE SumCompleted(records, n - 1) + Get(records[n], "completed", 0)

RECURSIVE SumFailed(_, _)
\* the sum of the lengths of failed_files of the first n records
SumFailed(records, n) ==
    IF n = 0 THEN 0
    ELSE SumFailed(records, n - 1) + Len(Get(records[n], "failed_files", <<>>))

\* C25: calculate_overall_progress returns total_completed = the sum of the
\* records' completed values, total_failed = the sum of the lengths of
\* their failed_files, estimated_total = 550 times the number of records,
\* and completion_percentage 0 for no records.
C25_SummaryTotals ==
    (mon_summary.state = "called" /\ ~mon_summary.value.raised) =>
        LET v == mon_summary.value IN
        /\ v.total_completed = SumCompleted(progress_data, Len(progress_data))
        /\ v.total_failed = SumFailed(progress_data, Len(progress_data))
        /\ v.estimated_total = 550 * Len(progress_data)
        /\ progress_data = <<>> => v.completion_percentage[1] = 0

\* C25 witness: a summary of two records that both completed an item and of
\* which one has a failed file.
C25_Witness ==
    /\ mon_summary.state = "called" /\ ~mon_summary.value.raised
    /\ Len(progress_data) = 2
    /\ mon_summary.value.total_completed = 2
    /\ mon_summary.value.total_failed = 1

\* C26: for schema-conforming records, also with an integer batch_number,
\* the status report (calculate_overall_progress, then display_progress)
\* ends without error and lists every stalled task id.
C26_ReportListsEveryStalledTask ==
    (mon_summary.state \in {"ok", "raised", "display_raised"}
       /\ \A j \in 1..Len(progress_data) : WellFormed(progress_data[j])) =>
        /\ mon_summary.state = "ok"
        /\ \A j \in StalledRecords :
              \E h \in 1..Len(mon_summary.value.stuck_tasks) :
                  mon_summary.value.stuck_tasks[h] = progress_data[j].batch_number

\* C27: every task the provider holds had its chunk uploaded to task-data
\* under <job_id>/<task_id>_work_items.json, the blob holding exactly the
\* chunk of the task's index; after a failed payload upload the provider
\* holds no task.
C27_PayloadUploadedBeforeSubmission ==
    /\ \A tk \in dp_provider.tasks :
          \E j \in 1..Len(dp_tasks) :
              /\ dp_tasks[j].id = tk[2]
              /\ LET name == tk[1] \o <<"/">> \o tk[2] \o <<"_work_items.json">>
                 IN  /\ name \in DOMAIN dp_task_data
                     /\ dp_task_data[name] = dp_chunks[j]
    /\ dp_printed = <<<<"error", "upload">>>> => dp_provider.tasks = {}

\* C27 witness: a submission of three tasks, all accepted.
C27_Witness ==
    /\ dp_pc = "done" /\ Len(dp_tasks) = 3
    /\ Cardinality(dp_provider.tasks) = 3
    /\ Cardinality(DOMAIN dp_task_data) = 3

\* C29: every work item carries the year of the year sub-listing it was
\* found under: its url contains the segment '<year>/' of its year.
C29_ItemYearIsListingYear ==
    \A j \in 1..Len(dp_items) :
        \E h \in 1..Len(dp_items[j].url) :
            dp_items[j].url[h] = YearDir(dp_items[j].year)

\* C28: the record of every checkpoint accounts for the items handled so
\* far, completed + len(failed_files) = the position of the item just
\* handled, and its completed value is not below that of the execution's
\* previous checkpoint.
C28_CheckpointAccountsAndGrows ==
    [][ckptCalls' = ckptCalls + 1 =>
          /\ lastCkpt'.completed + Len(lastCkpt'.failed_files) = idx
          /\ ckptCalls >= 1 => lastCkpt'.completed >= lastCkpt.completed]_vars

\* C28 witness: the second checkpoint of an execution, taken after eleven
\* completed items and one failed item.
C28_Witness ==
    /\ ckptCalls = 2 /\ lastCkpt.completed = 11 /\ Len(lastCkpt.failed_files) = 1

\* the number of places item i takes in the item collections posted
TimesPosted(i) ==
    Cardinality({<<k, h>> \in (1..Len(ig_posted)) \X (1..MaxIngestItems + 1) :
                    /\ h <= Len(ig_posted[k].features)
                    /\ ig_posted[k].features[h] = i})

RECURSIVE AcceptedItems(_)
AcceptedItems(k) ==
    IF k = 0 THEN 0
    ELSE AcceptedItems(k - 1)
         + (IF ig_posted[k].status \in AcceptedCodes
            THEN Len(ig_posted[k].features) ELSE 0)

\* C31: when optimized_batch_ingest has returned, every item the loop
\* counted lies in exactly one posted batch, no batch is longer than
\* batch_size and every batch but the last has exactly batch_size items,
\* and total_ingested is the sum of the sizes of the batches answered with
\* status 200 or 202.
C31_BatchesPartitionItems ==
    ig_pc = "done" =>
        /\ \A i \in 1..ig_total_searched : TimesPosted(i) = 1
        /\ \A k \in 1..Len(ig_posted) :
              /\ Len(ig_posted[k].features) <= ig_batch_size
              /\ k < Len(ig_posted) => Len(ig_posted[k].features) = ig_batch_size
        /\ ig_total_ingested = AcceptedItems(Len(ig_posted))

Classified == Elems(om_completed) \cup Elems(om_failed)
Unclassified == Filter(om_operation_ids, Elems(om_operation_ids) \ Classified)
AllTerminal == \A op_id \in DOMAIN om_status : om_status[op_id] # "Running"
MonitorEnded == om_pc \in {"done", "timeout"}
\* the rounds the while condition still admits, counting the sleeps only
RoundsLeft ==
    IF om_elapsed >= om_timeout_seconds THEN 0
    ELSE (om_timeout_seconds - om_elapsed + PollInterval - 1) \div PollInterval

C32_Safe ==
    /\ Elems(om_completed) \cap Elems(om_failed) = {}
    /\ \A op_id \in Elems(om_completed) : om_status[op_id] \in SucceededNames
    /\ \A op_id \in Elems(om_failed) : om_status[op_id] \in FailedNames
    /\ \A e \in om_stale : e[2] = "same round"
    /\ Len(om_completed) + Len(om_failed)
          <= PollsPerRound * (om_elapsed \div PollInterval)
    /\ om_pc = "done" => Unclassified = <<>>
    /\ om_pc = "timeout" => om_elapsed >= om_timeout_seconds

====
